---- MODULE Spec2Model ----
(***************************************************************************)
(* Product catalog service: FastAPI handlers over an Elasticsearch index   *)
(* ("products", keyed by product_uuid) and a Redis counter                 *)
(* ("product_id_seq").  One application process runs the lifespan          *)
(* (sequence bootstrap, then serving); request handlers are cooperative    *)
(* tasks that suspend at every store call, so each store call is one step. *)
(* A store call may fail with a transport error at any time.  An index    *)
(* refresh changes nothing a handler reads, so it is taken in the same     *)
(* step as the write it follows.                                           *)
(*                                                                         *)
(* Documents carry product_id, product_uuid, name, price, created_at and   *)
(* updated_at; category and brand are carried by the products of the       *)
(* search catalogue, where the filters read them.  creator_id is an opaque *)
(* string no modelled operation reads and is left out.                     *)
(***************************************************************************)
EXTENDS Integers, Sequences, FiniteSets, TLC

\* ------------------------------------------------------------------ bounds
NumTasks == 2
MaxCreates == 3
MaxClock == 1
MaxRuns == 2

Tasks == 1..NumTasks
UUIDs == {"u1", "u2"}
Names == {"a"}
Prices == {5}

\* fastapi.status codes used by the adapters and the error handlers.
HTTP_200_OK == 200
HTTP_400_BAD_REQUEST == 400
NotFoundAsBadRequest == HTTP_400_BAD_REQUEST
HTTP_404_NOT_FOUND == 404
HTTP_422_UNPROCESSABLE_ENTITY == 422
HTTP_500_INTERNAL_SERVER_ERROR == 500

\* ------------------------------------------------------------ value helpers
\* Python's Optional: None, or a present value.
None == <<>>
Some(v) == <<v>>

NoDoc == [f \in {} |-> 0]

SetMax(S) == IF S = {} THEN 0 ELSE CHOOSE m \in S : \A x \in S : x <= m

\* datetime.isoformat(): the timestamp leaves Python as an ISO-8601 string.
isoformat(t) == [iso |-> t]

\* dict.update / Elasticsearch partial-document merge: keys of u win.
Merge(d, u) == [f \in (DOMAIN d) \cup (DOMAIN u) |-> IF f \in DOMAIN u THEN u[f] ELSE d[f]]

\* del d[k]
DictDel(d, k) == [f \in (DOMAIN d) \ {k} |-> d[f]]

\* ------------------------------------------------------------------- state
VARIABLES
    redis,      \* the counter store: key -> integer, a missing key is unset
    storage,    \* the products index: product_uuid -> document
    now,        \* the UTC clock read by datetime.now
    app,        \* the process: lifespan position and the bootstrap's locals
    task,       \* the request handlers
    high,       \* history: the highest product_id create_product has assigned so far
    deleted,    \* history: the product_ids of the documents removed by delete
    written,    \* history: the latest create/update response with status 200 and the
                \* key it was for, while no later write has changed the index
    gone,       \* history: the product_uuids deleted with a 200 answer and not
                \* created with a 200 answer since
    lost        \* history: "no" | "lost" (counter data lost) | "restored" (a bootstrap
                \* has since run, every store call answered) | "unrestored" (a
                \* bootstrap has since returned, its maximum-id query having failed)

vars == <<redis, storage, now, app, task, high, deleted, lost, written, gone>>

sequence_key == "product_id_seq"

\* ------------------------------------------------------- counter store adapter
\* redis.incr(key): atomic; an unset key counts from 0.
RedisIncrLost(r, k) == r
RedisIncr(r, k) ==
    [x \in (DOMAIN r) \cup {k} |-> IF x = k THEN (IF k \in DOMAIN r THEN r[k] + 1 ELSE 1) ELSE r[x]]

\* SequenceService.get_next_id: the value the increment returned.
get_next_id_stale(r) == IF sequence_key \in DOMAIN r THEN r[sequence_key] ELSE 0
get_next_id(r) == IF sequence_key \in DOMAIN r THEN r[sequence_key] + 1 ELSE 1

\* SequenceService.get_current_id: int(current) if current else 0.
get_current_id(r) == IF sequence_key \in DOMAIN r THEN r[sequence_key] ELSE 0

\* SequenceService.set_current_id: redis.set(key, value).
set_current_id(r, v) == [x \in (DOMAIN r) \cup {sequence_key} |-> IF x = sequence_key THEN v ELSE r[x]]

\* SequenceService.reset: redis.delete(key).
resetKeepsValue(r) == r
reset(r) == [x \in (DOMAIN r) \ {sequence_key} |-> r[x]]

\* ------------------------------------------------------- sequence bootstrap
\* The max aggregation over product_id; no documents yields None -> 0.
MaxStoredId(s) == SetMax({s[u]["product_id"] : u \in DOMAIN s})

\* SequenceInitializer.get_max_id_from_elasticsearch: a failed query is logged
\* and answered with 0.
get_max_id_from_elasticsearch(s, ok) == IF ok THEN MaxStoredId(s) ELSE 0

\* initialize_sequence: `if current < max_id`.
ShouldSetAlways(current, max_id) == TRUE
ShouldSetOnTie(current, max_id) == current <= max_id
ShouldSet(current, max_id) == current < max_id

\* pc: the lifespan's position; max_id, current: initialize_sequence's locals;
\* history: inits (bootstrap runs of this process), faulted (a bootstrap store
\* call failed), wrote (the bootstrap called set_current_id), dirty (the counter
\* store lost its data after the bootstrap had read it).
FreshApp ==
    [pc |-> "init_query", max_id |-> 0, current |-> 0,
     inits |-> 0, faulted |-> FALSE, wrote |-> FALSE, dirty |-> FALSE]

\* The ASGI server routes requests only between the lifespan's startup and
\* shutdown, that is while the lifespan generator is suspended at its yield.
AcceptingEarly == app.pc \in {"init_query", "init_read", "init_write", "init_done", "yield"}
Accepting == app.pc = "yield"

IdleTask ==
    [pc |-> "idle", op |-> "none", uuid |-> "none", data |-> NoDoc,
     status |-> 0, body |-> NoDoc, had_pid |-> FALSE, orig |-> 0,
     arg |-> NoDoc, fault |-> "none"]

Init ==
    /\ redis = [x \in {} |-> 0]
    /\ storage = [u \in {} |-> NoDoc]
    /\ now = 0
    /\ app = FreshApp
    /\ task = [t \in Tasks |-> IdleTask]
    /\ high = 0
    /\ deleted = {}
    /\ lost = "no"
    /\ written = NoDoc
    /\ gone = {}

\* lifespan -> initialize_all_sequences -> initialize_sequence, first await:
\* the maximum-id query.
InitQueryMax ==
    /\ app.pc = "init_query"
    /\ \E ok \in BOOLEAN :
        app' = [app EXCEPT !.pc = "init_read",
                           !.max_id = get_max_id_from_elasticsearch(storage, ok),
                           !.inits = @ + 1,
                           !.faulted = ~ok]
    /\ UNCHANGED <<redis, storage, now, task, high, deleted, lost, written, gone>>

\* Second await: sequence.get_current_id(); a failure is re-raised up to lifespan.
InitReadCurrent ==
    /\ app.pc = "init_read"
    /\ \E ok \in BOOLEAN :
        app' = IF ok
               THEN [app EXCEPT !.pc = "init_write", !.current = get_current_id(redis)]
               ELSE [app EXCEPT !.pc = "failed", !.faulted = TRUE]
    /\ UNCHANGED <<redis, storage, now, task, high, deleted, lost, written, gone>>

\* History: what a completed bootstrap run means for a lost counter.
AfterBootstrap(l, a) ==
    IF l = "no" \/ a.dirty THEN l
    ELSE IF a.faulted THEN (IF l = "restored" THEN l ELSE "unrestored")
    ELSE "restored"

\* The comparison and, when current < max_id, the third await: set_current_id.
\* On return initialize_all_sequences is complete.
InitWrite ==
    /\ app.pc = "init_write"
    /\ IF ShouldSet(app.current, app.max_id)
       THEN \E ok \in BOOLEAN :
            IF ok
            THEN /\ redis' = set_current_id(redis, app.max_id)
                 /\ app' = [app EXCEPT !.pc = "init_done", !.wrote = TRUE]
                 /\ lost' = AfterBootstrap(lost, app)
            ELSE /\ app' = [app EXCEPT !.pc = "failed", !.faulted = TRUE]
                 /\ UNCHANGED <<redis, lost>>
       ELSE /\ app' = [app EXCEPT !.pc = "init_done"]
            /\ lost' = AfterBootstrap(lost, app)
            /\ UNCHANGED redis
    /\ UNCHANGED <<storage, now, task, high, deleted, written, gone>>

\* initialize_all_sequences is called again after it has returned: the loop
\* over sequence_mappings starts over with fresh locals.
InitAgain ==
    /\ app.pc = "init_done"
    /\ app.inits < MaxRuns
    /\ app' = [app EXCEPT !.pc = "init_query", !.max_id = 0, !.current = 0]
    /\ UNCHANGED <<redis, storage, now, task, high, deleted, lost, written, gone>>

\* initialize_all_sequences has returned: the lifespan reaches its yield and
\* the application is ready.
LifespanYield ==
    /\ app.pc = "init_done"
    /\ app' = [FreshApp EXCEPT !.pc = "yield", !.inits = app.inits]
    /\ UNCHANGED <<redis, storage, now, task, high, deleted, lost, written, gone>>

\* Shutdown: the server drains its requests, then the lifespan resumes after
\* the yield and closes the Elasticsearch connection.
Shutdown ==
    /\ app.pc = "yield"
    /\ \A t \in Tasks : task[t].pc = "idle"
    /\ app' = [app EXCEPT !.pc = "stopped"]
    /\ UNCHANGED <<redis, storage, now, task, high, deleted, lost, written, gone>>

\* The process is started again (after a shutdown or a failed startup).
ProcessStart ==
    /\ app.pc \in {"stopped", "failed"}
    /\ app' = FreshApp
    /\ UNCHANGED <<redis, storage, now, task, high, deleted, lost, written, gone>>

\* The counter store loses its data (SequenceService.reset, or a flushed Redis).
CounterLoss ==
    /\ sequence_key \in DOMAIN redis
    /\ redis' = reset(redis)
    /\ lost' = "lost"
    /\ app' = [app EXCEPT !.dirty = @ \/ app.pc = "init_write"]
    /\ UNCHANGED <<storage, now, task, high, deleted, written, gone>>

Tick ==
    /\ now < MaxClock
    /\ now' = now + 1
    /\ UNCHANGED <<redis, storage, app, task, high, deleted, lost, written, gone>>

\* ---------------------------------------------------------- request inputs
\* ProductCreate.model_dump(): every field present, price > 0.
CreateInputs == {[product_uuid |-> u, name |-> n, price |-> p] : u \in UUIDs, n \in Names, p \in Prices}

\* The partial document handed to ProductService.update_product: any subset of
\* the fields, a field possibly None (model_dump(exclude_unset=True)).
UpdateFields == {"name", "price", "product_id"}
PartialDocs(fields, names, prices) ==
    {[f \in S |-> CASE f = "name" -> n [] f = "price" -> p [] f = "product_id" -> i] :
        S \in SUBSET fields, n \in names, p \in prices,
        i \in {Some(x) : x \in 1..MaxCreates}}
UpdateInputs ==
    {d \in PartialDocs({"name", "product_id"}, {Some("b")}, {Some(7)}) : "name" \in DOMAIN d}

\* ------------------------------------------------------------ task plumbing
\* The handler returns or raises: the response is kept until it is sent.
Respond(t, code, doc) ==
    [task EXCEPT ![t] = [@ EXCEPT !.pc = "done", !.data = NoDoc, !.arg = NoDoc,
                                  !.status = code, !.body = doc]]

\* `except Exception as e: raise HTTPException(400, detail=str(e))`: a store call
\* failed with a transport error.  History: fault, the call that failed.
RetryOnFailure(t, call) ==
    [task EXCEPT ![t] = [@ EXCEPT !.pc = IF task[t].op = "create" THEN "create_incr" ELSE "done",
                                  !.status = HTTP_400_BAD_REQUEST, !.fault = call]]
NativeErrorEscapes(t, call) ==
    [task EXCEPT ![t] = [@ EXCEPT !.pc = "done", !.data = NoDoc, !.arg = NoDoc,
                                  !.status = HTTP_500_INTERNAL_SERVER_ERROR, !.body = NoDoc,
                                  !.fault = call]]
BadRequest(t, call) ==
    [task EXCEPT ![t] = [@ EXCEPT !.pc = "done", !.data = NoDoc, !.arg = NoDoc,
                                  !.status = HTTP_400_BAD_REQUEST, !.body = NoDoc,
                                  !.fault = call]]

EsIndexDropped(s, id, doc) == s
EsIndex(s, id, doc) == [u \in (DOMAIN s) \cup {id} |-> IF u = id THEN doc ELSE s[u]]
EsReplace(s, id, doc) == [s EXCEPT ![id] = doc]
EsUpdate(s, id, doc) == [s EXCEPT ![id] = Merge(@, doc)]
EsDelete(s, id) == [u \in (DOMAIN s) \ {id} |-> s[u]]

\* The client's JSON serializer writes a datetime as its ISO string.
EsSerialize(d) == [f \in DOMAIN d |-> IF f = "updated_at" THEN isoformat(d[f]) ELSE d[f]]

\* --------------------------------------------------- ProductService.create_product
\* error_handlers: ValueError -> 400; an exception with no handler of its own
\* falls to the generic handler -> 500.
ValueErrorUnhandled == HTTP_500_INTERNAL_SERVER_ERROR
value_error_exception_handler == HTTP_400_BAD_REQUEST

\* SequenceService.get_next_id: `except Exception: raise ValueError(...)`; nothing
\* in create_product catches it.
ValueErrorRaised(t) ==
    [task EXCEPT ![t] = [@ EXCEPT !.pc = "done", !.data = NoDoc, !.arg = NoDoc,
                                  !.status = value_error_exception_handler,
                                  !.body = NoDoc, !.fault = "incr"]]

\* CRUDBase.create, up to the es.index call: stamp both timestamps when absent.
CrudCreateStamp(data, t) ==
    Merge([created_at |-> isoformat(t), updated_at |-> isoformat(t)], data)

\* create_product(data), data drawn from inputs.
StartCreateWith(t, inputs) ==
    /\ Accepting
    /\ task[t].pc = "idle"
    /\ get_current_id(redis) + Cardinality({x \in Tasks : task[x].pc = "create_incr"}) < MaxCreates
    /\ \E d \in inputs :
        task' = [task EXCEPT ![t] = [IdleTask EXCEPT !.pc = "create_incr", !.op = "create",
                                                     !.uuid = d.product_uuid, !.data = d]]
    /\ UNCHANGED <<redis, storage, now, app, high, deleted, lost>>

StartCreate(t) == StartCreateWith(t, CreateInputs)

\* create_product called in another process of the service, one that is
\* already serving: its readiness does not depend on this process's lifespan.
PeerStartCreate(t) ==
    /\ task[t].pc = "idle"
    /\ get_current_id(redis) + Cardinality({x \in Tasks : task[x].pc = "create_incr"}) < MaxCreates
    /\ \E d \in CreateInputs :
        task' = [task EXCEPT ![t] = [IdleTask EXCEPT !.pc = "create_incr", !.op = "create",
                                                     !.uuid = d.product_uuid, !.data = d]]
    /\ UNCHANGED <<redis, storage, now, app, high, deleted, lost>>

\* await sequence_service.get_next_id(); data["product_id"] = product_id; then
\* CRUDBase.create runs up to its first await.
CreateIncr(t) ==
    /\ task[t].pc = "create_incr"
    /\ \E ok \in BOOLEAN :
        IF ok
        THEN /\ redis' = RedisIncr(redis, sequence_key)
             /\ high' = IF get_next_id(redis) > high THEN get_next_id(redis) ELSE high
             /\ task' = [task EXCEPT ![t] = [@ EXCEPT
                            !.pc = "create_index",
                            !.data = CrudCreateStamp(
                                Merge(@, [product_id |-> get_next_id(redis)]), now)]]
        ELSE /\ task' = ValueErrorRaised(t)
             /\ UNCHANGED <<redis, high>>
    /\ UNCHANGED <<storage, now, app, deleted, lost>>

\* await es.index(index, id=data.get(id_field), document=data), then
\* await es.indices.refresh(); return {"id": response["_id"], **data}
CreateIndex(t) ==
    /\ task[t].pc = "create_index"
    /\ \E indexed \in BOOLEAN, refreshed \in BOOLEAN :
        /\ indexed \/ ~refreshed
        /\ IF indexed
           THEN /\ storage' = EsIndex(storage, task[t].data["product_uuid"], task[t].data)
                /\ task' = IF refreshed
                           THEN Respond(t, HTTP_200_OK, Merge([id |-> task[t].data["product_uuid"]], task[t].data))
                           ELSE BadRequest(t, "refresh")
           ELSE /\ task' = BadRequest(t, "index")
                /\ UNCHANGED storage
    /\ UNCHANGED <<redis, now, app, high, deleted, lost>>

\* --------------------------------------------------- ProductService.update_product
\* `if "product_id" in data: del data["product_id"]`
KeepProductId(d) == d
StripProductId(d) == IF "product_id" \in DOMAIN d THEN DictDel(d, "product_id") ELSE d

\* CRUDBase.update: drop the None fields, stamp updated_at when absent.
UpdateDataClears(d, t) ==
    Merge([f \in DOMAIN d |-> IF d[f] # None THEN d[f][1] ELSE IF f = "price" THEN 0 ELSE ""],
          [updated_at |-> t])
UpdateData(d, t) ==
    LET kept == [f \in {g \in DOMAIN d : d[g] # None} |-> d[f][1]]
    IN  IF "updated_at" \in DOMAIN kept THEN kept ELSE Merge(kept, [updated_at |-> t])

\* update_product(product_uuid, data), data drawn from inputs; history: arg, the
\* caller's dict.
StartUpdateWith(t, inputs) ==
    /\ Accepting
    /\ task[t].pc = "idle"
    /\ \E u \in UUIDs, d \in inputs :
        task' = [task EXCEPT ![t] = [IdleTask EXCEPT !.pc = "update_get", !.op = "update",
                                                     !.uuid = u, !.data = StripProductId(d),
                                                     !.had_pid = "product_id" \in DOMAIN d,
                                                     !.arg = d]]
    /\ UNCHANGED <<redis, storage, now, app, high, deleted, lost>>

StartUpdate(t) == StartUpdateWith(t, UpdateInputs)

\* await es.get(index, id): the existence check; then update_data is built.
UpdateWritesBeforeCheck(t) ==
    /\ task[t].pc = "update_get"
    /\ \E ok \in BOOLEAN :
        IF ok /\ task[t].uuid \notin DOMAIN storage
        THEN /\ storage' = EsIndex(storage, task[t].uuid, EsSerialize(UpdateData(task[t].data, now)))
             /\ task' = Respond(t, HTTP_404_NOT_FOUND, NoDoc)
        ELSE /\ UNCHANGED storage
             /\ task' = IF ~ok THEN BadRequest(t, "get")
                        ELSE [task EXCEPT ![t] = [@ EXCEPT !.pc = "update_update",
                                                           !.data = UpdateData(@, now),
                                                           !.orig = storage[task[t].uuid]["product_id"]]]
    /\ UNCHANGED <<redis, now, app, high, deleted, lost>>
UpdateGet(t) ==
    /\ task[t].pc = "update_get"
    /\ \E ok \in BOOLEAN :
        task' = IF ~ok THEN BadRequest(t, "get")
                ELSE IF task[t].uuid \notin DOMAIN storage THEN Respond(t, HTTP_404_NOT_FOUND, NoDoc)
                ELSE [task EXCEPT ![t] = [@ EXCEPT !.pc = "update_update",
                                                   !.data = UpdateData(@, now),
                                                   !.orig = storage[task[t].uuid]["product_id"]]]
    /\ UNCHANGED <<redis, storage, now, app, high, deleted, lost>>

UpdateUpserts(t) ==
    /\ task[t].pc = "update_update"
    /\ \E updated \in BOOLEAN, refreshed \in BOOLEAN :
        /\ updated \/ ~refreshed
        /\ IF updated
           THEN /\ storage' = IF task[t].uuid \in DOMAIN storage
                              THEN EsUpdate(storage, task[t].uuid, EsSerialize(task[t].data))
                              ELSE EsIndex(storage, task[t].uuid, EsSerialize(task[t].data))
                /\ task' = IF refreshed
                           THEN [task EXCEPT ![t] = [@ EXCEPT !.pc = "update_reget"]]
                           ELSE BadRequest(t, "refresh")
           ELSE /\ task' = BadRequest(t, "update")
                /\ UNCHANGED storage
    /\ UNCHANGED <<redis, now, app, high, deleted, lost>>

\* await es.update(index, id, doc=update_data): the server-side merge; then
\* await es.indices.refresh().
UpdateUpdate(t) ==
    /\ task[t].pc = "update_update"
    /\ \E updated \in BOOLEAN, refreshed \in BOOLEAN :
        /\ updated \/ ~refreshed
        /\ IF updated /\ task[t].uuid \in DOMAIN storage
           THEN /\ storage' = EsUpdate(storage, task[t].uuid, EsSerialize(task[t].data))
                /\ task' = IF refreshed
                           THEN [task EXCEPT ![t] = [@ EXCEPT !.pc = "update_reget"]]
                           ELSE BadRequest(t, "refresh")
           ELSE /\ task' = IF updated THEN Respond(t, HTTP_404_NOT_FOUND, NoDoc) ELSE BadRequest(t, "update")
                /\ UNCHANGED storage
    /\ UNCHANGED <<redis, now, app, high, deleted, lost>>

\* updated_doc = await es.get(index, id); return updated_doc["_source"]
UpdateReget(t) ==
    /\ task[t].pc = "update_reget"
    /\ \E ok \in BOOLEAN :
        task' = IF ~ok THEN BadRequest(t, "get")
                ELSE IF task[t].uuid \notin DOMAIN storage THEN Respond(t, HTTP_404_NOT_FOUND, NoDoc)
                ELSE Respond(t, HTTP_200_OK, storage[task[t].uuid])
    /\ UNCHANGED <<redis, storage, now, app, high, deleted, lost>>

\* --------------------------------------------------- ProductService.delete_product
StartDelete(t) ==
    /\ Accepting
    /\ task[t].pc = "idle"
    /\ \E u \in UUIDs :
        task' = [task EXCEPT ![t] = [IdleTask EXCEPT !.pc = "delete_delete", !.op = "delete",
                                                     !.uuid = u]]
    /\ UNCHANGED <<redis, storage, now, app, high, deleted, lost>>

\* await es.delete(index, id), then await es.indices.refresh().
DeleteDelete(t) ==
    /\ task[t].pc = "delete_delete"
    /\ \E removed \in BOOLEAN, refreshed \in BOOLEAN :
        /\ removed \/ ~refreshed
        /\ IF removed /\ task[t].uuid \in DOMAIN storage
           THEN /\ storage' = EsDelete(storage, task[t].uuid)
                /\ deleted' = deleted \cup {storage[task[t].uuid]["product_id"]}
                /\ task' = IF refreshed
                           THEN Respond(t, HTTP_200_OK, [message |-> "Item deleted successfully from products"])
                           ELSE BadRequest(t, "refresh")
           ELSE /\ task' = IF removed THEN Respond(t, HTTP_404_NOT_FOUND, NoDoc) ELSE BadRequest(t, "delete")
                /\ UNCHANGED <<storage, deleted>>
    /\ UNCHANGED <<redis, now, app, high, lost>>

\* --------------------------------------------------------------- GET /{uuid}
StartGet(t) ==
    /\ Accepting
    /\ task[t].pc = "idle"
    /\ \E u \in UUIDs :
        task' = [task EXCEPT ![t] = [IdleTask EXCEPT !.pc = "get_get", !.op = "get", !.uuid = u]]
    /\ UNCHANGED <<redis, storage, now, app, high, deleted, lost>>

\* CRUDBase.get
GetGetIncrements(t) ==
    /\ task[t].pc = "get_get"
    /\ redis' = RedisIncr(redis, sequence_key)
    /\ \E ok \in BOOLEAN :
        task' = IF ~ok THEN BadRequest(t, "get")
                ELSE IF task[t].uuid \notin DOMAIN storage THEN Respond(t, HTTP_404_NOT_FOUND, NoDoc)
                ELSE Respond(t, HTTP_200_OK, storage[task[t].uuid])
    /\ UNCHANGED <<storage, now, app, high, deleted, lost>>
GetGet(t) ==
    /\ task[t].pc = "get_get"
    /\ \E ok \in BOOLEAN :
        task' = IF ~ok THEN BadRequest(t, "get")
                ELSE IF task[t].uuid \notin DOMAIN storage THEN Respond(t, HTTP_404_NOT_FOUND, NoDoc)
                ELSE Respond(t, HTTP_200_OK, storage[task[t].uuid])
    /\ UNCHANGED <<redis, storage, now, app, high, deleted, lost>>

\* --------------------------------------------------------- CRUDBase.exists
StartExists(t) ==
    /\ Accepting
    /\ task[t].pc = "idle"
    /\ \E u \in UUIDs :
        task' = [task EXCEPT ![t] = [IdleTask EXCEPT !.pc = "exists_get", !.op = "exists", !.uuid = u]]
    /\ UNCHANGED <<redis, storage, now, app, high, deleted, lost>>

\* await es.get(index, id): True; NotFoundError: False; any other exception: 400.
ExistsGet(t) ==
    /\ task[t].pc = "exists_get"
    /\ \E ok \in BOOLEAN :
        task' = IF ~ok THEN BadRequest(t, "get")
                ELSE Respond(t, HTTP_200_OK, [exists |-> task[t].uuid \in DOMAIN storage])
    /\ UNCHANGED <<redis, storage, now, app, high, deleted, lost>>

\* The response has been sent; the handler has ended.
Finish(t) ==
    /\ task[t].pc = "done"
    /\ task' = [task EXCEPT ![t] = IdleTask]
    /\ UNCHANGED <<redis, storage, now, app, high, deleted, lost>>

\* ------------------------------------------------ SequenceService, called directly
\* Each operation is one call of the counter store; `except Exception: raise
\* ValueError(...)`.  The caller's record: op, arg (set_current_id's value) and
\* body (the value returned).
SequenceReturned(t, name, a, v) ==
    [task EXCEPT ![t] = [IdleTask EXCEPT !.pc = "done", !.op = name, !.status = HTTP_200_OK,
                                         !.arg = a, !.body = v]]
SequenceFailed(t, name, a) ==
    [task EXCEPT ![t] = [IdleTask EXCEPT !.pc = "done", !.op = name,
                                         !.status = value_error_exception_handler,
                                         !.arg = a, !.fault = "redis"]]

CallGetNextId(t) ==
    /\ task[t].pc = "idle"
    /\ get_current_id(redis) < MaxCreates
    /\ \E ok \in BOOLEAN :
        IF ok
        THEN /\ redis' = RedisIncr(redis, sequence_key)
             /\ task' = SequenceReturned(t, "get_next_id", NoDoc, [value |-> get_next_id(redis)])
        ELSE /\ task' = SequenceFailed(t, "get_next_id", NoDoc)
             /\ UNCHANGED redis
    /\ UNCHANGED <<storage, now, app, high, deleted, lost>>

CallGetCurrentId(t) ==
    /\ task[t].pc = "idle"
    /\ \E ok \in BOOLEAN :
        task' = IF ok
                THEN SequenceReturned(t, "get_current_id", NoDoc, [value |-> get_current_id(redis)])
                ELSE SequenceFailed(t, "get_current_id", NoDoc)
    /\ UNCHANGED <<redis, storage, now, app, high, deleted, lost>>

CallSetCurrentId(t) ==
    /\ task[t].pc = "idle"
    /\ \E v \in 0..MaxCreates, ok \in BOOLEAN :
        IF ok
        THEN /\ redis' = set_current_id(redis, v)
             /\ task' = SequenceReturned(t, "set_current_id", [value |-> v], NoDoc)
        ELSE /\ task' = SequenceFailed(t, "set_current_id", [value |-> v])
             /\ UNCHANGED redis
    /\ UNCHANGED <<storage, now, app, high, deleted, lost>>

CallReset(t) ==
    /\ task[t].pc = "idle"
    /\ \E ok \in BOOLEAN :
        IF ok
        THEN /\ redis' = reset(redis)
             /\ task' = SequenceReturned(t, "reset", NoDoc, NoDoc)
        ELSE /\ task' = SequenceFailed(t, "reset", NoDoc)
             /\ UNCHANGED redis
    /\ UNCHANGED <<storage, now, app, high, deleted, lost>>

\* ------------------------------------------------------------ HTTP boundary
\* Request bodies as the client sends them: JSON objects, a field possibly
\* missing, a price possibly non-positive.
BadPrices == {0, -1}
ProductCreateFields == {"product_uuid", "name", "price"}
CreateBodies ==
    {[f \in S |-> CASE f = "product_uuid" -> u [] f = "name" -> n [] f = "price" -> p] :
        S \in {ProductCreateFields, ProductCreateFields \ {"name"}, ProductCreateFields \ {"price"}},
        u \in UUIDs, n \in Names, p \in Prices \cup BadPrices}

\* ProductCreate: every field required (Field(...)), price gt=0.
ProductCreateAny(b) == TRUE
ProductCreate(b) == ProductCreateFields \subseteq DOMAIN b /\ b["price"] > 0

\* ProductUpdate: every field Optional with default None, price gt=0 when given;
\* a field the schema does not declare (product_id) is ignored.
ProductUpdateFields == {"name", "price"}
UpdateBodies ==
    {b \in PartialDocs({"name", "price", "product_id"}, {None, Some("b")},
                       {None, Some(7)} \cup {Some(p) : p \in BadPrices}) :
        "product_id" \in DOMAIN b => b["product_id"] = Some(1)}
ProductUpdateAny(b) == TRUE
ProductUpdate(b) == ("price" \in DOMAIN b /\ b["price"] # None) => b["price"][1] > 0

\* model_dump(exclude_unset=True): the declared fields the client sent.
model_dump(b, fields) == [f \in (DOMAIN b) \cap fields |-> b[f]]

\* validation_exception_handler: RequestValidationError -> 422; the route
\* function is not called.  History: arg, the request body.
Unprocessable(t, name, u, b) ==
    [task EXCEPT ![t] = [IdleTask EXCEPT !.pc = "done", !.op = name, !.uuid = u,
                                         !.status = HTTP_422_UNPROCESSABLE_ENTITY,
                                         !.arg = b]]

\* POST /products/
HttpCreate(t) ==
    /\ Accepting
    /\ task[t].pc = "idle"
    /\ \E b \in CreateBodies :
        IF ProductCreate(b)
        THEN /\ get_current_id(redis) + Cardinality({x \in Tasks : task[x].pc = "create_incr"}) < MaxCreates
             /\ task' = [task EXCEPT ![t] = [IdleTask EXCEPT
                            !.pc = "create_incr", !.op = "create",
                            !.uuid = b["product_uuid"],
                            !.data = model_dump(b, ProductCreateFields), !.arg = b]]
        ELSE task' = Unprocessable(t, "create", b["product_uuid"], b)
    /\ UNCHANGED <<redis, storage, now, app, high, deleted, lost>>

\* PUT /products/{product_uuid}
HttpUpdate(t) ==
    /\ Accepting
    /\ task[t].pc = "idle"
    /\ \E u \in UUIDs, b \in UpdateBodies :
        IF ProductUpdate(b)
        THEN task' = [task EXCEPT ![t] = [IdleTask EXCEPT
                        !.pc = "update_get", !.op = "update", !.uuid = u,
                        !.data = StripProductId(model_dump(b, ProductUpdateFields)),
                        !.arg = b]]
        ELSE task' = Unprocessable(t, "update", u, b)
    /\ UNCHANGED <<redis, storage, now, app, high, deleted, lost>>

\* GET /products/ with no query parameters: filters = {}, page = 1,
\* page_size = 10, sort_by = None.
DefaultPage == 1
DefaultPageSize == 10

\* prepare_query({}) is {"bool": {"must": []}}, which matches every document;
\* prepare_sort(None) is [{"product_id": "desc"}].  The store's answers: the
\* documents in descending product_id order, ties in any order.
SortedByProductIdDesc(s) ==
    {q \in [1..Cardinality(DOMAIN s) -> DOMAIN s] :
        /\ \A i, j \in DOMAIN q : i < j => (q[i] # q[j] /\ s[q[i]]["product_id"] >= s[q[j]]["product_id"])}

\* from_ = (page - 1) * size, size = size
PageOf(q, page, size) ==
    [i \in 1..(IF Len(q) - (page - 1) * size < 0 THEN 0
               ELSE IF Len(q) - (page - 1) * size > size THEN size
               ELSE Len(q) - (page - 1) * size) |-> q[(page - 1) * size + i]]

HttpSearch(t) ==
    /\ Accepting
    /\ task[t].pc = "idle"
    /\ task' = [task EXCEPT ![t] = [IdleTask EXCEPT !.pc = "search_search", !.op = "search"]]
    /\ UNCHANGED <<redis, storage, now, app, high, deleted, lost>>

\* ProductQueryService.search: await es.search(...); {"total", "page", "size", "items"}
SearchSearch(t) ==
    /\ task[t].pc = "search_search"
    /\ \E ok \in BOOLEAN :
        IF ok
        THEN \E q \in SortedByProductIdDesc(storage) :
                task' = Respond(t, HTTP_200_OK,
                                [total |-> Len(q), page |-> DefaultPage, size |-> DefaultPageSize,
                                 items |-> [i \in DOMAIN PageOf(q, DefaultPage, DefaultPageSize) |->
                                               storage[PageOf(q, DefaultPage, DefaultPageSize)[i]]]])
        ELSE task' = BadRequest(t, "search")
    /\ UNCHANGED <<redis, storage, now, app, high, deleted, lost>>

\* ------------------------------------------------- ProductQueryService.search
\* The catalogue searched: products that differ in category, brand and price.
SearchCatalogue ==
    {[product_uuid |-> "u1", category |-> "electronics", brand |-> "x", name |-> "a", price |-> 5],
     [product_uuid |-> "u2", category |-> "Electronics", brand |-> "x", name |-> "a", price |-> 7],
     [product_uuid |-> "u3", category |-> "books", brand |-> "y", name |-> "a", price |-> 5]}

\* prepare_query: the clause lists, in the order the code appends to them.
MustOf(filters) ==
    IF "q" \in DOMAIN filters
    THEN <<[kind |-> "multi_match", query |-> filters["q"], fields |-> <<"name^3", "brand^2">>]>>
    ELSE <<>>

TermOf(filters, field) ==
    IF field \in DOMAIN filters
    THEN <<[kind |-> "term", field |-> field, value |-> filters[field]]>>
    ELSE <<>>

RangeOf(filters) ==
    IF "min_price" \in DOMAIN filters \/ "max_price" \in DOMAIN filters
    THEN <<[kind |-> "range", field |-> "price",
            bounds |-> [b \in {x \in {"gte", "lte"} :
                                  \/ x = "gte" /\ "min_price" \in DOMAIN filters
                                  \/ x = "lte" /\ "max_price" \in DOMAIN filters} |->
                           IF b = "gte" THEN filters["min_price"] ELSE filters["max_price"]]]>>
    ELSE <<>>

FilterTermsOf(filters) == TermOf(filters, "category") \o TermOf(filters, "brand") \o RangeOf(filters)

\* query = {"bool": {"must": must}}; the "filter" key only when filter_terms is non-empty.
prepare_query(filters) ==
    IF FilterTermsOf(filters) # <<>>
    THEN [must |-> MustOf(filters), filter |-> FilterTermsOf(filters)]
    ELSE [must |-> MustOf(filters)]

\* prepare_sort: `if not sort_by` holds for None and for ""; sort_map.get(sort_by, default).
DefaultSort == [field |-> "product_id", order |-> "desc"]
sort_map ==
    [price_asc |-> [field |-> "price", order |-> "asc"],
     price_desc |-> [field |-> "price", order |-> "desc"],
     newest |-> [field |-> "created_at", order |-> "desc"],
     popularity |-> [field |-> "_score", order |-> "desc"]]

prepare_sort_unknown_by_price(sort_by) ==
    IF sort_by = None \/ sort_by = Some("") THEN DefaultSort
    ELSE IF sort_by[1] \in DOMAIN sort_map THEN sort_map[sort_by[1]]
    ELSE sort_map["price_asc"]
prepare_sort(sort_by) ==
    IF sort_by = None \/ sort_by = Some("") THEN DefaultSort
    ELSE IF sort_by[1] \in DOMAIN sort_map THEN sort_map[sort_by[1]]
    ELSE DefaultSort

\* from_=(page - 1) * size
SearchFromNextPage(page, size) == page * size
SearchFrom(page, size) == (page - 1) * size

\* ------------------------------------------------------- the products index
\* The index is never created with PRODUCTS_MAPPING: the lifespan's call of
\* create_indices is commented out, and INDEX_MAPPINGS names the index "".
\* The first es.index creates the index with dynamic mappings, under which a
\* JSON string is a text field (standard analyzer) and a number is numeric.
FieldType(field) ==
    IF field \in {"product_uuid", "category", "brand", "name"} THEN "text" ELSE "numeric"

\* The standard analyzer: the lower-cased words of the value (the values of
\* the catalogue are single words).
lowercase(v) == IF v = "Electronics" THEN "electronics" ELSE v
standard_analyzer(v) == {lowercase(v)}

\* What the index holds of a field: the analyzed terms of a text field, the
\* value itself otherwise.
IndexedTerms(d, field) ==
    IF FieldType(field) = "text" THEN standard_analyzer(d[field]) ELSE {d[field]}

\* term: the value as given is among the indexed terms; range: gte / lte are
\* inclusive; multi_match: the query text is analyzed and matched on name or brand.
ClauseMatches(d, c) ==
    CASE c.kind = "term" -> c.field \in DOMAIN d /\ c.value \in IndexedTerms(d, c.field)
      [] c.kind = "range" ->
            /\ c.field \in DOMAIN d
            /\ "gte" \in DOMAIN c.bounds => d[c.field] >= c.bounds["gte"]
            /\ "lte" \in DOMAIN c.bounds => d[c.field] <= c.bounds["lte"]
      [] c.kind = "multi_match" ->
            standard_analyzer(c.query) \cap (IndexedTerms(d, "name") \cup IndexedTerms(d, "brand")) # {}

\* bool: every must clause and every filter clause matches.
BoolMatches(d, query) ==
    /\ \A i \in DOMAIN query.must : ClauseMatches(d, query.must[i])
    /\ "filter" \in DOMAIN query => \A i \in DOMAIN query.filter : ClauseMatches(d, query.filter[i])

\* Sorting: a date sorts by its instant; the relevance score is not modelled,
\* so a sort on _score admits any order, as do ties.
InSortOrder(d1, d2, sort) ==
    LET key(d) == IF sort.field = "created_at" THEN d[sort.field].iso ELSE d[sort.field]
    IN  \/ sort.field = "_score"
        \/ sort.order = "asc" /\ key(d1) <= key(d2)
        \/ sort.order = "desc" /\ key(d1) >= key(d2)

\* es.search(body={"query", "sort"}): the matching documents, each once, in sort order.
EsSearch(s, query, sort) ==
    LET ids == {u \in DOMAIN s : BoolMatches(s[u], query)}
    IN  {q \in [1..Cardinality(ids) -> ids] :
            \A i, j \in DOMAIN q : i < j => (q[i] # q[j] /\ InSortOrder(s[q[i]], s[q[j]], sort))}

\* from_ / size: the window of the ordered result.
EsWindow(q, from_, size) ==
    [i \in 1..(IF Len(q) - from_ < 0 THEN 0
               ELSE IF Len(q) - from_ > size THEN size
               ELSE Len(q) - from_) |-> q[from_ + i]]

\* The calls of ProductQueryService.search: any filter map with the default
\* page, size and sort, and every page, size and sort with a category filter or none.
MaxPage == 3
MaxSize == 2
SortTokens == {None, Some(""), Some("bogus"), Some("price_asc"), Some("price_desc"),
               Some("newest"), Some("popularity")}
FilterMaps ==
    {[f \in S |-> CASE f = "q" -> "a" [] f = "category" -> c [] f = "brand" -> b
                    [] f = "min_price" -> lo [] f = "max_price" -> hi] :
        S \in SUBSET {"q", "category", "brand", "min_price", "max_price"},
        c \in {"electronics", "Electronics", "books"}, b \in {"x"}, lo \in {6}, hi \in {6}}
SearchInputs ==
    {[filters |-> f, page |-> DefaultPage, size |-> DefaultPageSize, sort_by |-> None] :
        f \in FilterMaps}
    \cup
    {[filters |-> f, page |-> p, size |-> z, sort_by |-> o] :
        f \in {m \in FilterMaps : DOMAIN m \subseteq {"category"}},
        p \in 1..MaxPage, z \in 1..MaxSize, o \in SortTokens}

\* search(filters, page, size, sort_by): prepare_query and prepare_sort run
\* before the await.  History: arg, the call's arguments, kept with the answer.
StartSearch(t) ==
    /\ Accepting
    /\ task[t].pc = "idle"
    /\ \E a \in SearchInputs :
        task' = [task EXCEPT ![t] = [IdleTask EXCEPT !.pc = "query_search", !.op = "search",
                                                     !.arg = a]]
    /\ UNCHANGED <<redis, storage, now, app, high, deleted, lost>>

\* await es.search(index, body, from_, size); return {"total", "page", "size", "items"}
QuerySearch(t) ==
    /\ task[t].pc = "query_search"
    /\ \E ok \in BOOLEAN :
        IF ok
        THEN \E q \in EsSearch(storage, prepare_query(task[t].arg.filters),
                               prepare_sort(task[t].arg.sort_by)) :
                LET hits == EsWindow(q, SearchFrom(task[t].arg.page, task[t].arg.size),
                                     task[t].arg.size)
                IN  task' = [task EXCEPT ![t] = [@ EXCEPT
                                !.pc = "done", !.status = HTTP_200_OK,
                                !.body = [total |-> Len(q), page |-> task[t].arg.page,
                                          size |-> task[t].arg.size,
                                          items |-> [i \in DOMAIN hits |-> storage[hits[i]]]]]]
        ELSE task' = [BadRequest(t, "search") EXCEPT ![t].arg = task[t].arg]
    /\ UNCHANGED <<redis, storage, now, app, high, deleted, lost>>

\* -------------------------------------------------------- response history
\* The handler steps say nothing about written and gone.  A specification
\* either records them from the responses (Observed) or leaves them at
\* their initial values (Unobserved).
Unobserved == UNCHANGED <<written, gone>>

Answered(t, name) ==
    task[t].op = name /\ task'[t].pc = "done" /\ task'[t].status = HTTP_200_OK

Observed(t) ==
    /\ written' = IF Answered(t, "create") \/ Answered(t, "update")
                  THEN [key |-> task[t].uuid, doc |-> task'[t].body]
                  ELSE IF storage' # storage THEN NoDoc ELSE written
    /\ gone' = IF Answered(t, "delete") THEN gone \cup {task[t].uuid}
               ELSE IF Answered(t, "create") THEN gone \ {task[t].uuid}
               ELSE gone

\* ------------------------------------------------------------ specifications
\* The lifespan of the process: bootstrap, ready, shutdown, start again.
Lifecycle ==
    \/ InitQueryMax
    \/ InitReadCurrent
    \/ InitWrite
    \/ LifespanYield
    \/ Shutdown
    \/ ProcessStart

\* One run of the process up to readiness.
Startup ==
    \/ InitQueryMax
    \/ InitReadCurrent
    \/ InitWrite
    \/ LifespanYield

\* One handler's steps.
Creates(t) ==
    \/ StartCreate(t) /\ Unobserved
    \/ CreateIncr(t) /\ Unobserved
    \/ CreateIndex(t) /\ Unobserved
    \/ Finish(t) /\ Unobserved

Requests(t) ==
    \/ StartCreate(t) /\ Unobserved
    \/ CreateIncr(t) /\ Unobserved
    \/ CreateIndex(t) /\ Unobserved
    \/ StartUpdate(t) /\ Unobserved
    \/ UpdateGet(t) /\ Unobserved
    \/ UpdateUpdate(t) /\ Unobserved
    \/ UpdateReget(t) /\ Unobserved
    \/ StartDelete(t) /\ Unobserved
    \/ DeleteDelete(t) /\ Unobserved
    \/ StartGet(t) /\ Unobserved
    \/ GetGet(t) /\ Unobserved
    \/ Finish(t) /\ Unobserved

\* The service handling one request at a time, the counter store losing its
\* data at any moment; the clock stands still.
Next == Lifecycle \/ CounterLoss \/ Requests(1)
Spec == Init /\ [][Next]_vars

\* One process serving the HTTP API, one request at a time; the counter store
\* keeps its data.  In SpecHttp the clock stands still, in SpecClock it advances.
HttpRequests(t) ==
    \/ HttpCreate(t) /\ Observed(t)
    \/ CreateIncr(t) /\ Observed(t)
    \/ CreateIndex(t) /\ Observed(t)
    \/ HttpUpdate(t) /\ Observed(t)
    \/ UpdateGet(t) /\ Observed(t)
    \/ UpdateUpdate(t) /\ Observed(t)
    \/ UpdateReget(t) /\ Observed(t)
    \/ StartDelete(t) /\ Observed(t)
    \/ DeleteDelete(t) /\ Observed(t)
    \/ StartGet(t) /\ Observed(t)
    \/ GetGet(t) /\ Observed(t)
    \/ HttpSearch(t) /\ Observed(t)
    \/ SearchSearch(t) /\ Observed(t)
    \/ Finish(t) /\ Observed(t)

NextHttp == Startup \/ HttpRequests(1)
SpecHttp == Init /\ [][NextHttp]_vars

NextClock == Startup \/ Tick \/ HttpRequests(1)
SpecClock == Init /\ [][NextClock]_vars

\* ProductService called directly: update_product takes any dict, so also one
\* that carries product_uuid.
ServiceUpdateInputs ==
    {[name |-> Some("b")]} \cup {[product_uuid |-> Some(u)] : u \in UUIDs}

ServiceCalls(t) ==
    \/ StartCreate(t) /\ Unobserved
    \/ CreateIncr(t) /\ Unobserved
    \/ CreateIndex(t) /\ Unobserved
    \/ StartUpdateWith(t, ServiceUpdateInputs) /\ Unobserved
    \/ UpdateGet(t) /\ Unobserved
    \/ UpdateUpdate(t) /\ Unobserved
    \/ UpdateReget(t) /\ Unobserved
    \/ StartDelete(t) /\ Unobserved
    \/ DeleteDelete(t) /\ Unobserved
    \/ Finish(t) /\ Unobserved

NextService == Startup \/ ServiceCalls(1)
SpecService == Init /\ [][NextService]_vars

\* ProductQueryService called directly over a catalogue built by creates; the
\* clock advances.
SearchCalls(t) ==
    \/ StartCreateWith(t, SearchCatalogue) /\ Unobserved
    \/ CreateIncr(t) /\ Unobserved
    \/ CreateIndex(t) /\ Unobserved
    \/ StartSearch(t) /\ Unobserved
    \/ QuerySearch(t) /\ Unobserved
    \/ Finish(t) /\ Unobserved

NextSearch == Startup \/ Tick \/ SearchCalls(1)
SpecSearch == Init /\ [][NextSearch]_vars

\* Every operation of the document store adapter, called one at a time.
AdapterCalls(t) ==
    \/ StartCreate(t) /\ Unobserved
    \/ CreateIncr(t) /\ Unobserved
    \/ CreateIndex(t) /\ Unobserved
    \/ StartUpdate(t) /\ Unobserved
    \/ UpdateGet(t) /\ Unobserved
    \/ UpdateUpdate(t) /\ Unobserved
    \/ UpdateReget(t) /\ Unobserved
    \/ StartDelete(t) /\ Unobserved
    \/ DeleteDelete(t) /\ Unobserved
    \/ StartGet(t) /\ Unobserved
    \/ GetGet(t) /\ Unobserved
    \/ StartExists(t) /\ Unobserved
    \/ ExistsGet(t) /\ Unobserved
    \/ HttpSearch(t) /\ Unobserved
    \/ SearchSearch(t) /\ Unobserved
    \/ Finish(t) /\ Unobserved

NextAdapter == Startup \/ AdapterCalls(1)
SpecAdapter == Init /\ [][NextAdapter]_vars

\* The counter adapter alone: its operations called in any order by two callers.
SequenceCalls(t) ==
    \/ CallGetNextId(t) /\ Unobserved
    \/ CallGetCurrentId(t) /\ Unobserved
    \/ CallSetCurrentId(t) /\ Unobserved
    \/ CallReset(t) /\ Unobserved
    \/ Finish(t) /\ Unobserved

NextSequence == \E t \in Tasks : SequenceCalls(t)
SpecSequence == Init /\ [][NextSequence]_vars

\* Concurrent update_product calls on products created before them: a create
\* runs while no other call does, the updates run concurrently.
ConcurrentUpdateInputs == {[name |-> Some("b")], [name |-> Some("c")]}
NoCallRunning == \A x \in Tasks : task[x].pc = "idle"
NoCreateRunning == \A x \in Tasks : task[x].op # "create"

Updates(t) ==
    \/ StartCreate(t) /\ NoCallRunning /\ Unobserved
    \/ CreateIncr(t) /\ Unobserved
    \/ CreateIndex(t) /\ Unobserved
    \/ StartUpdateWith(t, ConcurrentUpdateInputs) /\ NoCreateRunning /\ Unobserved
    \/ UpdateGet(t) /\ Unobserved
    \/ UpdateUpdate(t) /\ Unobserved
    \/ UpdateReget(t) /\ Unobserved
    \/ Finish(t) /\ Unobserved

NextUpdates == Startup \/ \E t \in Tasks : Updates(t)
SpecUpdates == Init /\ [][NextUpdates]_vars

\* Two processes on the same stores: app is a process that starts and runs the
\* bootstrap, the handlers are those of a process that is already serving;
\* the counter store may lose its data.
PeerCreates(t) ==
    \/ PeerStartCreate(t) /\ Unobserved
    \/ CreateIncr(t) /\ Unobserved
    \/ CreateIndex(t) /\ Unobserved
    \/ Finish(t) /\ Unobserved

NextPeers == Startup \/ CounterLoss \/ PeerCreates(1)
SpecPeers == Init /\ [][NextPeers]_vars

\* One process serving concurrent create, update and delete requests after its
\* bootstrap, two requests at a time; the counter store keeps its data.  The
\* updates carry a product_id in their input.
UpdateWithIdInputs == {[name |-> Some("b"), product_id |-> Some(1)]}
OneOtherCall(t) == Cardinality({x \in Tasks \ {t} : task[x].pc # "idle"}) <= 1

ConcurrentRequests(t) ==
    \/ StartCreate(t) /\ OneOtherCall(t) /\ Unobserved
    \/ CreateIncr(t) /\ Unobserved
    \/ CreateIndex(t) /\ Unobserved
    \/ StartUpdateWith(t, UpdateWithIdInputs) /\ OneOtherCall(t) /\ Unobserved
    \/ UpdateGet(t) /\ Unobserved
    \/ UpdateUpdate(t) /\ Unobserved
    \/ UpdateReget(t) /\ Unobserved
    \/ StartDelete(t) /\ OneOtherCall(t) /\ Unobserved
    \/ DeleteDelete(t) /\ Unobserved
    \/ Finish(t) /\ Unobserved

NextConcurrent == Startup \/ \E t \in Tasks : ConcurrentRequests(t)
SpecConcurrent == Init /\ [][NextConcurrent]_vars

\* Concurrent update_product and delete_product calls, two at a time, on
\* products created before them: a create runs while no other call does.
NameUpdateInputs == {[name |-> Some("b")]}
UpdatesAndDeletes(t) ==
    \/ StartCreate(t) /\ NoCallRunning /\ Unobserved
    \/ CreateIncr(t) /\ Unobserved
    \/ CreateIndex(t) /\ Unobserved
    \/ StartUpdateWith(t, NameUpdateInputs) /\ NoCreateRunning /\ OneOtherCall(t) /\ Unobserved
    \/ UpdateGet(t) /\ Unobserved
    \/ UpdateUpdate(t) /\ Unobserved
    \/ UpdateReget(t) /\ Unobserved
    \/ StartDelete(t) /\ NoCreateRunning /\ OneOtherCall(t) /\ Unobserved
    \/ DeleteDelete(t) /\ Unobserved
    \/ Finish(t) /\ Unobserved

NextUpdatesAndDeletes == Startup \/ \E t \in Tasks : UpdatesAndDeletes(t)
SpecUpdatesAndDeletes == Init /\ [][NextUpdatesAndDeletes]_vars

\* initialize_all_sequences run repeatedly by a process that has not yet
\* started them, on stores left by an earlier process: products created, the
\* counter possibly lost.  Nothing else touches the stores once the first run
\* has begun.
NotBegun == app = FreshApp
RepeatedBootstrap ==
    \/ InitQueryMax
    \/ InitReadCurrent
    \/ InitWrite
    \/ InitAgain

NextRepeated ==
    \/ RepeatedBootstrap
    \/ CounterLoss /\ NotBegun
    \/ PeerCreates(1) /\ NotBegun
SpecRepeated == Init /\ [][NextRepeated]_vars

\* Concurrent create requests against a counter store that keeps its data.
NextCreates == Lifecycle \/ \E t \in Tasks : Creates(t)
SpecCreates == Init /\ [][NextCreates]_vars

\* ===================================================================== claims
\* The step in which create_product's increment returns: the product_id is assigned.
Assigned(t) == task[t].pc = "create_incr" /\ task'[t].pc = "create_index"
NewId(t) == task'[t].data["product_id"]
Returned(t) == task[t].op = "create" /\ task[t].pc = "done" /\ task[t].status = 200

\* C1: in every interleaving of concurrent create_product calls against a
\* counter store with atomic increments, the product_ids returned to the
\* callers are pairwise distinct.
C1_ReturnedIdsDistinct ==
    \A t1 \in Tasks, t2 \in Tasks :
        (t1 # t2 /\ Returned(t1) /\ Returned(t2))
            => task[t1].body["product_id"] # task[t2].body["product_id"]

C1_Witness ==
    \E t1 \in Tasks, t2 \in Tasks :
        /\ t1 # t2 /\ Returned(t1) /\ Returned(t2)
        /\ task[t1].body["product_id"] # task[t2].body["product_id"]

\* C2: while the counter store keeps its value, across creates, updates,
\* deletes and restarts (each running the bootstrap), every product_id
\* create_product assigns is strictly greater than every product_id assigned
\* before, the ids of deleted products included; none is assigned twice.
C2_IdsStrictlyIncrease ==
    [][\A t \in Tasks : (Assigned(t) /\ lost = "no") => NewId(t) > high]_vars

C2_Witness ==
    /\ lost = "no" /\ (high - 1) \in deleted /\ storage = [u \in {} |-> NoDoc]
    /\ task[1].pc = "create_index" /\ task[1].data["product_id"] = high

\* C3: once the bootstrap has completed, and afterwards under create, update
\* and delete requests, the counter is at least the maximum product_id stored.
C3_CounterCoversStore ==
    (app.pc \in {"init_done", "yield"} /\ lost # "lost")
        => get_current_id(redis) >= MaxStoredId(storage)

\* C4: after a counter-store data loss and the next successful bootstrap,
\* every product_id create_product assigns is strictly greater than the
\* product_id of every product stored at that time.
C4_NewIdAboveStoreAfterRestore ==
    [][\A t \in Tasks : (Assigned(t) /\ lost \in {"restored", "unrestored"})
                            => NewId(t) > MaxStoredId(storage)]_vars

\* C5: the product_id of a deleted product is never assigned
\* again, also after a counter-store data loss followed by a bootstrap.
C5_DeletedIdNeverReassigned ==
    [][\A t \in Tasks : (Assigned(t) /\ lost \in {"no", "restored"}) => NewId(t) \notin deleted]_vars

\* C5, restricted to runs in which the counter store keeps its data: the
\* product_id of a deleted product is never assigned again.
C5_DeletedIdNotReassignedWithoutLoss ==
    [][\A t \in Tasks : (Assigned(t) /\ lost = "no") => NewId(t) \notin deleted]_vars

C5_Witness ==
    /\ lost = "no" /\ deleted # {}
    /\ task[1].pc = "create_index" /\ task[1].data["product_id"] \notin deleted
    /\ app.inits = 1 /\ MaxStoredId(storage) < SetMax(deleted)

\* C6: a failure of any of the three bootstrap store calls makes
\* initialize_all_sequences raise; it never returns normally after one.
C6_BootstrapFaultIsFatal == app.faulted => app.pc \notin {"init_done", "yield"}

\* C7: a bootstrap run with no concurrent writer leaves the counter at
\* max(current, max_observed): it writes max_observed exactly when
\* current < max_observed, otherwise it does not write; it never lowers the counter.
C7_BootstrapSetsMax ==
    [][(app.pc = "init_write" /\ app'.pc = "init_done" /\ ~app.dirty) =>
          /\ get_current_id(redis') = SetMax({app.current, app.max_id})
          /\ app'.wrote = (app.current < app.max_id)
          /\ (~app'.wrote => redis' = redis)
          /\ get_current_id(redis') >= get_current_id(redis)]_vars

C7_Witness ==
    /\ app.pc = "init_done" /\ app.wrote /\ ~app.dirty
    /\ app.current < app.max_id /\ get_current_id(redis) = app.max_id

\* C8: within one process the bootstrap runs exactly once and has returned
\* before any request handler runs.
C8_BootstrapBeforeRequests ==
    /\ \A t \in Tasks : task[t].pc # "idle" => (app.pc = "yield" /\ app.inits = 1)
    /\ app.pc \in {"init_read", "init_write", "init_done", "yield"} => app.inits = 1

C8_Witness ==
    /\ app.pc = "yield" /\ app.inits = 1
    /\ task[1].pc = "create_index"

\* C9: update_product with product_id present in its partial input leaves the
\* stored product_id unchanged and returns the document with the original product_id.
C9_UpdateKeepsProductId ==
    \A t \in Tasks :
        (task[t].op = "update" /\ task[t].had_pid) =>
            /\ task[t].pc = "update_reget" =>
                  (task[t].uuid \in DOMAIN storage =>
                      storage[task[t].uuid]["product_id"] = task[t].orig)
            /\ (task[t].pc = "done" /\ task[t].status = 200) =>
                  /\ task[t].body["product_id"] = task[t].orig
                  /\ storage[task[t].uuid]["product_id"] = task[t].orig

C9_Witness ==
    \E t \in Tasks :
        /\ task[t].op = "update" /\ task[t].had_pid
        /\ task[t].pc = "done" /\ task[t].status = 200
        /\ task[t].body["name"] = "b"
        /\ task[t].body["product_id"] = task[t].orig
        /\ task[t].orig = 2

\* C10: as long as a product is not deleted, its stored product_id never
\* changes, whatever create_product and update_product calls follow.
C10_ProductIdImmutable ==
    [][\A u \in (DOMAIN storage) \cap (DOMAIN storage') :
          storage'[u]["product_id"] = storage[u]["product_id"]]_vars

\* C11: the es.update of a successful update changes, in the stored document,
\* only fields the caller supplied with a non-null value and updated_at (the
\* supplied ones take the supplied value); every other field, created_at
\* included, and every other document keep their values.
C11_UpdateMergesOnlySupplied ==
    [][\A t \in Tasks :
          (task[t].pc = "update_update" /\ task'[t].pc = "update_reget") =>
              LET u == task[t].uuid
                  given == {f \in DOMAIN task[t].arg : task[t].arg[f] # None}
              IN  /\ DOMAIN storage' = DOMAIN storage
                  /\ DOMAIN storage'[u] = DOMAIN storage[u]
                  /\ \A f \in (DOMAIN storage[u]) \ (given \cup {"updated_at"}) :
                         storage'[u][f] = storage[u][f]
                  /\ \A f \in given \cap {"name", "price"} :
                         storage'[u][f] = task[t].arg[f][1]
                  /\ \A v \in (DOMAIN storage) \ {u} : storage'[v] = storage[v]]_vars

C11_Witness ==
    /\ task[1].pc = "update_reget"
    /\ task[1].arg = [name |-> Some("b"), price |-> None]
    /\ storage[task[1].uuid]["name"] = "b"
    /\ storage[task[1].uuid]["price"] = 5
    /\ Cardinality(DOMAIN storage) = 2

\* C12: every stored document's product_uuid field equals the key it is stored
\* under, whatever create_product, update_product and delete_product calls
\* were made.
C12_ProductUuidIsKey ==
    \A u \in DOMAIN storage : storage[u]["product_uuid"] = u

\* C13: no create or update changes the created_at of a stored product, and an
\* update given no updated_at leaves updated_at not earlier than it was.
C13_CreatedAtWrittenOnce ==
    [][\A u \in (DOMAIN storage) \cap (DOMAIN storage') :
          /\ storage'[u]["created_at"] = storage[u]["created_at"]
          /\ (\E t \in Tasks : task[t].pc = "update_update" /\ task[t].uuid = u)
                => storage'[u]["updated_at"].iso >= storage[u]["updated_at"].iso]_vars

\* C14: get, update and delete on an identifier that is not stored end, when
\* the store answers, with 404: not with 400 and not with success.
C14_NotFoundIs404 ==
    [][\A t \in Tasks :
          (/\ task[t].pc \in {"get_get", "update_get", "update_update", "delete_delete"}
           /\ task[t].uuid \notin DOMAIN storage
           /\ task'[t].pc = "done" /\ task'[t].fault = "none")
              => (task'[t].status = 404 /\ storage' = storage)]_vars

C14_Witness ==
    /\ task[1].pc = "done" /\ task[1].op = "delete" /\ task[1].status = 404
    /\ task[1].fault = "none" /\ task[1].uuid \notin DOMAIN storage
    /\ storage # [u \in {} |-> NoDoc]

\* C15: a get that the store answers, on the product_uuid of the latest
\* successful create or update with no write since, returns 200 and a document
\* equal field by field to that response, its product_uuid the one asked for.
C15_ReadYourWrites ==
    [][\A t \in Tasks :
          (/\ task[t].pc = "get_get" /\ task'[t].pc = "done" /\ task'[t].fault = "none"
           /\ DOMAIN written # {} /\ written.key = task[t].uuid)
              => /\ task'[t].status = 200
                 /\ \A f \in DOMAIN task'[t].body : task'[t].body[f] = written.doc[f]
                 /\ {"product_id", "product_uuid", "name", "price"} \subseteq DOMAIN task'[t].body
                 /\ task'[t].body["product_uuid"] = task[t].uuid]_vars

C15_Witness ==
    /\ task[1].pc = "done" /\ task[1].op = "get" /\ task[1].status = 200
    /\ DOMAIN written # {} /\ written.key = task[1].uuid
    /\ task[1].body["price"] = 7 /\ written.doc["price"] = 7
    /\ task[1].body["product_id"] = 2

\* C16: after a delete answered 200 and until a create of that product_uuid is
\* answered 200, the document is not stored, a get of it that the store answers
\* ends with 404 and no search result holds it; the delete changes no other document.
C16_DeletedStaysGone ==
    [][/\ \A u \in gone' :
            /\ u \notin DOMAIN storage'
            /\ \A t \in Tasks :
                  /\ (task'[t].pc = "done" /\ task'[t].op = "get" /\ task'[t].uuid = u
                          /\ task'[t].fault = "none") => task'[t].status = 404
                  /\ (task'[t].pc = "done" /\ task'[t].op = "search" /\ task'[t].status = 200)
                        => \A i \in DOMAIN task'[t].body.items :
                              task'[t].body.items[i]["product_uuid"] # u
       /\ \A t \in Tasks :
            (task[t].pc = "delete_delete" /\ task[t].uuid \in DOMAIN storage /\ storage' # storage)
                => \A v \in (DOMAIN storage) \ {task[t].uuid} :
                      v \in DOMAIN storage' /\ storage'[v] = storage[v]]_vars

C18_IncrFailureIs400 ==
    [][\A t \in Tasks :
          (task[t].pc = "create_incr" /\ task'[t].pc # "create_index")
              => /\ task'[t].pc = "done" /\ task'[t].fault = "incr"
                 /\ task'[t].status = 400
                 /\ storage' = storage /\ redis' = redis]_vars

C18_Witness ==
    /\ task[1].pc = "done" /\ task[1].op = "create" /\ task[1].fault = "incr"
    /\ task[1].status = 400 /\ storage # [u \in {} |-> NoDoc]

C20_StoredPricePositive ==
    \A u \in DOMAIN storage : "price" \in DOMAIN storage[u] /\ storage[u]["price"] > 0

C20_Witness ==
    \E u \in DOMAIN storage : storage[u]["price"] = 7 /\ storage[u]["name"] = "a"

\* The step in which ProductQueryService.search returns its envelope.
SearchReturns(t) ==
    task[t].pc = "query_search" /\ task'[t].pc = "done" /\ task'[t].status = 200

\* C21: for page >= 1 and size >= 1 and a query matching M documents, search
\* returns total = M, echoes page and size, and returns exactly
\* min(size, max(0, M - (page-1)*size)) items: the items at offsets
\* (page-1)*size .. (page-1)*size + size - 1 of the store's ordered result,
\* in that order.
C21_SearchPagination ==
    [][\A t \in Tasks : SearchReturns(t) =>
        LET a == task[t].arg
            r == task'[t].body
            query == prepare_query(a.filters)
            M == Cardinality({u \in DOMAIN storage : BoolMatches(storage[u], query)})
            off == (a.page - 1) * a.size
            rest == IF M - off > 0 THEN M - off ELSE 0
            k == IF a.size < rest THEN a.size ELSE rest
        IN  /\ a.page >= 1 /\ a.size >= 1
            /\ r.total = M /\ r.page = a.page /\ r.size = a.size
            /\ DOMAIN r.items = 1..k
            /\ \E q \in EsSearch(storage, query, prepare_sort(a.sort_by)) :
                  \A i \in 1..k : r.items[i] = storage[q[off + i]]]_vars

\* search({}, page=2, size=1) on two documents: one item, total 2.
C21_Witness ==
    /\ task[1].op = "search" /\ task[1].pc = "done" /\ task[1].status = 200
    /\ Cardinality(DOMAIN storage) = 2
    /\ task[1].body.total = 2 /\ task[1].body.page = 2 /\ task[1].body.size = 1
    /\ DOMAIN task[1].body.items = {1}

\* A document satisfies the supplied filters: equal category, equal brand,
\* price within the supplied bounds.
Satisfies(d, filters) ==
    /\ "category" \in DOMAIN filters => d["category"] = filters["category"]
    /\ "brand" \in DOMAIN filters => d["brand"] = filters["brand"]
    /\ "min_price" \in DOMAIN filters => d["price"] >= filters["min_price"]
    /\ "max_price" \in DOMAIN filters => d["price"] <= filters["max_price"]

\* C22: the query built by prepare_query selects exactly the documents that
\* satisfy every supplied filter (category and brand by equality, price within
\* the supplied bounds, both bounds in one range clause); an empty filter map
\* selects every document, and the filter clause list is present only when
\* non-empty.  Stated for searches without free text whose page holds every match.
C22_QuerySelectsFiltered ==
    [][\A t \in Tasks :
        (SearchReturns(t) /\ "q" \notin DOMAIN task[t].arg.filters
                          /\ task[t].arg.page = 1
                          /\ task[t].arg.size >= Cardinality(DOMAIN storage)) =>
            LET a == task[t].arg
                r == task'[t].body
                query == prepare_query(a.filters)
            IN  /\ {r.items[i]["product_uuid"] : i \in DOMAIN r.items}
                      = {u \in DOMAIN storage : Satisfies(storage[u], a.filters)}
                /\ r.total = Cardinality({u \in DOMAIN storage : Satisfies(storage[u], a.filters)})
                /\ "filter" \in DOMAIN query => query.filter # <<>>
                /\ a.filters = NoDoc => query = [must |-> <<>>]
                /\ Cardinality({i \in DOMAIN FilterTermsOf(a.filters) :
                                   FilterTermsOf(a.filters)[i].kind = "range"}) <= 1]_vars

\* The order the items of an answer are in: by field f, ascending or descending.
ItemsAscending(items, f) ==
    \A i, j \in DOMAIN items : i < j => items[i][f] <= items[j][f]
ItemsDescending(items, f) ==
    \A i, j \in DOMAIN items : i < j => items[i][f] >= items[j][f]
SearchAnswered(t) ==
    task[t].op = "search" /\ task[t].pc = "done" /\ task[t].status = 200
        /\ task[t].arg # NoDoc

\* C23: prepare_sort maps price_asc, price_desc, newest and popularity to
\* ascending price, descending price, descending created_at and descending
\* score, and an absent, empty or unrecognized sort_by to descending
\* product_id; a search with an unrecognized token returns the ordering of
\* the same search with sort_by absent.
C23_SortResolution ==
    /\ prepare_sort(Some("popularity")) = [field |-> "_score", order |-> "desc"]
    /\ prepare_sort(Some("bogus")) = prepare_sort(None)
    /\ \A t \in Tasks : SearchAnswered(t) =>
        LET tok == task[t].arg.sort_by
            items == task[t].body.items
        IN  CASE tok = Some("price_asc") -> ItemsAscending(items, "price")
              [] tok = Some("price_desc") -> ItemsDescending(items, "price")
              [] tok = Some("newest") ->
                    \A i, j \in DOMAIN items :
                        i < j => items[i]["created_at"].iso >= items[j]["created_at"].iso
              [] tok = Some("popularity") -> TRUE
              [] OTHER ->
                    \A i, j \in DOMAIN items :
                        i < j => items[i]["product_id"] > items[j]["product_id"]

\* An unrecognized token answered with two items, the newer identifier first,
\* the higher price last.
C23_Witness ==
    /\ SearchAnswered(1) /\ task[1].arg.sort_by = Some("bogus")
    /\ DOMAIN task[1].body.items = {1, 2}
    /\ task[1].body.items[1]["price"] < task[1].body.items[2]["price"]

\* The document-store calls an adapter operation makes.
StoreCalls == {"index", "refresh", "get", "update", "delete", "search"}

\* C24: a failure of a document-store call inside create, update, delete, get,
\* exists or search, other than not-found-by-identifier, ends the operation as
\* BadRequest (400); NotFound (404) is the only other failure an adapter
\* operation ends with, exists never ends with it, and the store's own error
\* never escapes.
C24_StoreFailuresAreBadRequest ==
    \A t \in Tasks : task[t].pc = "done" =>
        /\ task[t].status \in {200, 400, 404}
        /\ task[t].fault \in StoreCalls => task[t].status = 400
        /\ task[t].status = 400 => task[t].fault \in StoreCalls \cup {"incr"}
        /\ task[t].status = 404 => (task[t].op \in {"get", "update", "delete"} /\ task[t].fault = "none")
        /\ task[t].op = "exists" =>
              (task[t].status = 200 => task[t].body = [exists |-> task[t].uuid \in DOMAIN storage])

\* exists answered False for an absent identifier, without a failure.
C24_Witness ==
    /\ task[1].pc = "done" /\ task[1].op = "exists" /\ task[1].status = 200
    /\ task[1].body = [exists |-> FALSE] /\ storage # [u \in {} |-> NoDoc]

\* The step in which a SequenceService operation returns to its caller.
SequenceReturns(t, name) ==
    task[t].pc = "idle" /\ task'[t].pc = "done" /\ task'[t].op = name /\ task'[t].status = 200

\* C25: over any sequence of the counter adapter's operations, get_next_id
\* returns the previous value plus one and stores it (1 on an unset counter);
\* get_current_id returns the stored value, 0 when unset, and changes nothing;
\* set_current_id(v) makes the stored value v, and on a counter that already
\* holds v changes nothing; reset unsets the counter, so that get_current_id
\* then returns 0 and the next get_next_id returns 1.
C25_CounterAdapter ==
    [][\A t \in Tasks :
        LET before == IF sequence_key \in DOMAIN redis THEN redis[sequence_key] ELSE 0
        IN  /\ SequenceReturns(t, "get_next_id") =>
                /\ task'[t].body.value = before + 1
                /\ sequence_key \in DOMAIN redis' /\ redis'[sequence_key] = before + 1
            /\ SequenceReturns(t, "get_current_id") =>
                /\ task'[t].body.value = before
                /\ redis' = redis
            /\ SequenceReturns(t, "set_current_id") =>
                /\ sequence_key \in DOMAIN redis' /\ redis'[sequence_key] = task'[t].arg.value
                /\ (sequence_key \in DOMAIN redis /\ redis[sequence_key] = task'[t].arg.value)
                      => redis' = redis
            /\ SequenceReturns(t, "reset") => sequence_key \notin DOMAIN redis'
            /\ (task[t].pc = "idle" /\ task'[t].pc = "done" /\ task'[t].status # 200)
                  => redis' = redis]_vars

\* set_current_id(3), then reset, then get_next_id returning 1.
C25_Witness ==
    /\ task[1].pc = "done" /\ task[1].op = "reset" /\ task[1].status = 200
    /\ task[2].pc = "done" /\ task[2].op = "get_next_id" /\ task[2].status = 200
    /\ task[2].body.value = 1 /\ sequence_key \in DOMAIN redis /\ redis[sequence_key] = 1

\* The step in which CRUDBase.create's es.index call (and refresh) is answered.
IndexAnswered(t) == task[t].pc = "create_index" /\ task'[t].pc = "done"

\* C26: in create_product the counter is incremented before the document is
\* written, and the product_id of the document written, and of the document
\* returned, is the value this call's increment returned.
C26_IncrementThenWrite ==
    [][\A t \in Tasks :
        /\ Assigned(t) =>
              /\ sequence_key \in DOMAIN redis'
              /\ NewId(t) = redis'[sequence_key]
              /\ redis'[sequence_key] = (IF sequence_key \in DOMAIN redis THEN redis[sequence_key] ELSE 0) + 1
              /\ storage' = storage
        /\ (task[t].pc = "idle" /\ task'[t].pc = "create_incr") => (redis' = redis /\ storage' = storage)
        /\ IndexAnswered(t) =>
              /\ "product_id" \in DOMAIN task[t].data
              /\ redis' = redis
              /\ storage' # storage =>
                    storage'[task[t].uuid]["product_id"] = task[t].data["product_id"]
              /\ task'[t].status = 200 =>
                    /\ task'[t].body["product_id"] = task[t].data["product_id"]
                    /\ storage'[task[t].uuid]["product_id"] = task[t].data["product_id"]]_vars

\* A create returned product_id 2 and stored it, while another call has
\* incremented the counter since.
C26_Witness ==
    \E t \in Tasks :
        /\ Returned(t) /\ task[t].body["product_id"] = 2
        /\ task[t].uuid \in DOMAIN storage /\ storage[task[t].uuid]["product_id"] = 2
        /\ get_current_id(redis) = 3

\* C27: no operation is retried.  A create_product call increments the counter
\* once and attempts the document write at most once, whether the write
\* succeeds or fails; so, the counter starting at c, after N calls (in any
\* interleaving) the counter is c + N and the product_ids assigned are exactly
\* c+1 .. c+N: each increment assigns the successor of the highest id so far,
\* and the counter equals the highest id assigned.
C27_NoRetries ==
    [][/\ redis' # redis => Cardinality({t \in Tasks : Assigned(t)}) = 1
       /\ storage' # storage => Cardinality({t \in Tasks : IndexAnswered(t)}) = 1
       /\ get_current_id(redis') = high'
       /\ \A t \in Tasks :
            /\ Assigned(t) => (NewId(t) = high + 1 /\ get_current_id(redis') = get_current_id(redis) + 1)
            /\ (task[t].op = "create" /\ task'[t] # task[t]) =>
                  CASE task[t].pc = "create_incr" -> task'[t].pc \in {"create_index", "done"}
                    [] task[t].pc = "create_index" -> task'[t].pc = "done"
                    [] task[t].pc = "done" -> task'[t].pc = "idle"
                    [] OTHER -> FALSE]_vars

\* Three calls have incremented the counter, one of them after a failed write
\* of another; the counter is 3.
C27_Witness ==
    /\ get_current_id(redis) = 3 /\ high = 3
    /\ \E t1 \in Tasks, t2 \in Tasks :
        /\ t1 # t2
        /\ task[t1].pc = "done" /\ task[t1].op = "create" /\ task[t1].fault = "index"
        /\ task[t2].pc = "create_index" /\ task[t2].data["product_id"] = 3

\* C28: a field supplied with a null value in an update's partial document is
\* dropped before the merge: whenever the update writes, the stored value of
\* that field is left as written, neither cleared nor removed, and a field
\* the document does not have is not added.
C28_NullFieldsLeftAsWritten ==
    [][\A t \in Tasks :
          (task[t].pc = "update_update" /\ storage' # storage) =>
              \A f \in {g \in DOMAIN task[t].arg : task[t].arg[g] = None} :
                  /\ f \in DOMAIN storage'[task[t].uuid] <=> f \in DOMAIN storage[task[t].uuid]
                  /\ f \in DOMAIN storage[task[t].uuid] =>
                        storage'[task[t].uuid][f] = storage[task[t].uuid][f]]_vars

\* {"name": null, "price": 7} was merged: the name is still "a", the price is 7.
C28_Witness ==
    /\ task[1].pc = "update_reget"
    /\ task[1].arg = [name |-> None, price |-> Some(7)]
    /\ storage[task[1].uuid]["name"] = "a"
    /\ storage[task[1].uuid]["price"] = 7

\* The step in which CRUDBase.update returns the document it read back.
UpdateReturns(t) ==
    task[t].pc = "update_reget" /\ task'[t].pc = "done" /\ task'[t].status = 200

\* C29: the document a successful update returns is the full merged document
\* and holds, for every (updatable) field the caller supplied with a non-null
\* value, exactly the supplied value, in every interleaving with concurrent
\* updates of the same identifier.
C29_UpdateReturnsSupplied ==
    [][\A t \in Tasks : UpdateReturns(t) =>
          /\ task'[t].body = storage[task[t].uuid]
          /\ \A f \in {g \in (DOMAIN task[t].arg) \cap {"name", "price"} : task[t].arg[g] # None} :
                task'[t].body[f] = task[t].arg[f][1]]_vars

\* Two updates of the same product, with different names, are both past their
\* es.update call.
C29_Witness ==
    /\ task[1].pc = "update_reget" /\ task[2].pc = "update_reget"
    /\ task[1].uuid = task[2].uuid
    /\ task[1].arg # task[2].arg

\* C30: when a starting process's bootstrap interleaves with create_product
\* calls of a process already running, the bootstrap's write never lowers the
\* counter: it does not overwrite a value that concurrent increments have
\* raised above max_observed.
C30_BootstrapKeepsRaisedCounter ==
    [][(app.pc = "init_write" /\ app'.pc = "init_done")
          => get_current_id(redis') >= get_current_id(redis)]_vars

\* The bootstrap has read a counter below max_observed and is about to write,
\* while increments of the running process have raised the counter above it.
C30_Witness ==
    /\ app.pc = "init_write" /\ app.current < app.max_id
    /\ get_current_id(redis) > app.max_id

\* C31: from an empty store and an unset counter, after the bootstrap and
\* under any interleaving of create, update and delete requests (the counter
\* store keeping its data), no two stored documents have the same product_id.
C31_StoredIdsDistinct ==
    \A u \in DOMAIN storage, v \in DOMAIN storage :
        u # v => storage[u]["product_id"] # storage[v]["product_id"]

\* Two products are stored, one of them updated with a product_id in its
\* input, and a product has been deleted.
C31_Witness ==
    /\ Cardinality(DOMAIN storage) = 2 /\ deleted # {}
    /\ \E t \in Tasks : task[t].op = "update" /\ task[t].had_pid
                          /\ task[t].pc = "done" /\ task[t].status = 200
    /\ \A u \in DOMAIN storage, v \in DOMAIN storage :
          u # v => storage[u]["product_id"] # storage[v]["product_id"]

\* The operations that are not create_product.
ReadOps == {"get", "exists", "search"}
WriteOps == {"update", "delete"}

\* C32: after startup only create_product changes the counter: a step of
\* update_product, delete_product, get, exists or search leaves the counter
\* as it is, and a step of get, exists or search leaves every stored
\* document as it is.
C32_OnlyCreateChangesCounter ==
    [][\A t \in Tasks :
          /\ (task'[t] # task[t] /\ task[t].op \in ReadOps \cup WriteOps) =>
                (redis' = redis /\ (task[t].op \in ReadOps => storage' = storage))
          /\ (app.pc = "yield" /\ redis' # redis) =>
                \E x \in Tasks : task[x].op = "create" /\ task'[x] # task[x]]_vars

\* A delete has removed a product and a search has been answered since, the
\* counter still at the value the creates left.
C32_Witness ==
    /\ deleted # {} /\ get_current_id(redis) = 2 /\ high = 2
    /\ task[1].op = "search" /\ task[1].pc = "done" /\ task[1].status = 200
    /\ task[1].body.total = 1

\* The step in which an update or a delete ends with NotFound.
EndsNotFound(t) ==
    /\ task[t].op \in {"update", "delete"}
    /\ task[t].pc # "done" /\ task'[t].pc = "done" /\ task'[t].status = 404

C34_UpdateNeverRecreates ==
    \A t1 \in Tasks, t2 \in Tasks :
        (/\ task[t1].op = "update" /\ task[t1].pc = "done" /\ task[t1].fault = "none"
         /\ task[t2].op = "delete" /\ task[t2].pc = "done" /\ task[t2].status = 200
         /\ task[t1].uuid = task[t2].uuid)
            => /\ task[t1].uuid \notin DOMAIN storage
               /\ task[t1].status \in {200, 404}

\* The delete ran between the update's existence check and its merge: both
\* have finished, the update with NotFound, while the other product is stored.
C34_Witness ==
    \E t1 \in Tasks, t2 \in Tasks :
        /\ task[t1].op = "update" /\ task[t1].pc = "done" /\ task[t1].status = 404
        /\ task[t1].orig > 0
        /\ task[t2].op = "delete" /\ task[t2].pc = "done" /\ task[t2].status = 200
        /\ task[t1].uuid = task[t2].uuid
        /\ Cardinality(DOMAIN storage) = 1

\* C35: the bootstrap is idempotent.  With no store or counter change in
\* between, a run of initialize_all_sequences that follows a run that has
\* returned performs no counter write and so leaves the counter at the value
\* the first run left.
C35_BootstrapIdempotent ==
    [][(app.inits >= 2 /\ app.pc = "init_write" /\ app'.pc = "init_done")
          => redis' = redis]_vars

\* The second run has returned after writing the counter: the first run's
\* maximum-id query had failed and was answered with 0.
C35_Witness ==
    /\ app.inits = 2 /\ app.pc = "init_done" /\ app.wrote /\ ~app.faulted
    /\ get_current_id(redis) = 1 /\ MaxStoredId(storage) = 1
    /\ lost = "restored"

====
